---- MODULE Spec2Model ----
(***************************************************************************)
(* A model of the ChessAI position tracker (src/src/game.rs) and of the    *)
(* evaluator it feeds (src/src/mcts.rs).                                   *)
(*                                                                         *)
(* The `chess` crate (Board, MoveGen, ChessMove, Square) is the move       *)
(* generator the Game delegates to.  It is modelled here by what the Game  *)
(* consumes from it: piece placement, side to move, castling rights, the   *)
(* en-passant square, the legal moves of a position and the position after *)
(* a move.                                                                 *)
(***************************************************************************)
EXTENDS Integers, Sequences, FiniteSets, TLC

(***************************************************************************)
(* Squares, pieces, colours (chess::Square, chess::Piece, chess::Color).   *)
(* A square is its index rank*8+file: a1 = 0, h1 = 7, a8 = 56, h8 = 63.    *)
(***************************************************************************)
ALL_SQUARES == 0 .. 63

Coord == 0 .. 7

get_file(sq) == sq % 8

get_rank(sq) == sq \div 8

make_square(rank, file) == rank * 8 + file

OnBoard(rank, file) == rank \in Coord /\ file \in Coord

Not(color) == IF color = "White" THEN "Black" ELSE "White"

FileChars == <<"a", "b", "c", "d", "e", "f", "g", "h">>

RankChars == <<"1", "2", "3", "4", "5", "6", "7", "8">>

\* Position of character c in the sequence chars, 0 when it is not in it.
IndexOf(chars, c) ==
    IF \E i \in 1 .. Len(chars) : chars[i] = c
    THEN CHOOSE i \in 1 .. Len(chars) : chars[i] = c
    ELSE 0

\* Square::from_str on a two-character text: {} on error, {sq} on success.
Square_from_str(s) ==
    IF Len(s) < 2 THEN {}
    ELSE LET f == IndexOf(FileChars, s[1])
             r == IndexOf(RankChars, s[2])
         IN  IF f = 0 \/ r = 0 THEN {} ELSE {make_square(r - 1, f - 1)}

\* Display of a square: file letter, rank digit.
Square_to_string(sq) == <<FileChars[get_file(sq) + 1], RankChars[get_rank(sq) + 1]>>

\* The square named by a file letter and a rank digit, e.g. Sq("e", "4").
Sq(f, r) == make_square(IndexOf(RankChars, r) - 1, IndexOf(FileChars, f) - 1)

(***************************************************************************)
(* chess::Board: what is on each square, who moves, castling rights and    *)
(* the en-passant square (the square of the pawn that just advanced two    *)
(* ranks, kept only when an enemy pawn stands beside it).                  *)
(***************************************************************************)
\* A board from a set of <<square, piece, color>> triples.
MakeBoard(triples, side, castle, ep) ==
    [ piece_on     |-> [sq \in ALL_SQUARES |->
                          IF \E t \in triples : t[1] = sq
                          THEN (CHOOSE t \in triples : t[1] = sq)[2] ELSE "None"],
      color_on     |-> [sq \in ALL_SQUARES |->
                          IF \E t \in triples : t[1] = sq
                          THEN (CHOOSE t \in triples : t[1] = sq)[3] ELSE "None"],
      side_to_move |-> side,
      castle_rights |-> castle,
      en_passant   |-> ep ]

BackRank == <<"Rook", "Knight", "Bishop", "Queen", "King", "Bishop", "Knight", "Rook">>

\* Board::default(): the standard starting position.
Board_default ==
    MakeBoard(
        {<<make_square(0, f), BackRank[f + 1], "White">> : f \in Coord}
        \cup {<<make_square(1, f), "Pawn", "White">> : f \in Coord}
        \cup {<<make_square(6, f), "Pawn", "Black">> : f \in Coord}
        \cup {<<make_square(7, f), BackRank[f + 1], "Black">> : f \in Coord},
        "White", {"WK", "WQ", "BK", "BQ"}, {})

side_to_move(board) == board.side_to_move

\* The squares holding a piece of the given kind and colour.
SquaresOf(board, piece, color) ==
    {sq \in ALL_SQUARES : board.piece_on[sq] = piece /\ board.color_on[sq] = color}

KingSquare(board, color) ==
    CHOOSE sq \in ALL_SQUARES : board.piece_on[sq] = "King" /\ board.color_on[sq] = color

KnightSteps == {<<1, 2>>, <<2, 1>>, <<2, -1>>, <<1, -2>>, <<-1, -2>>, <<-2, -1>>, <<-2, 1>>, <<-1, 2>>}

KingSteps == {<<1, 0>>, <<1, 1>>, <<0, 1>>, <<-1, 1>>, <<-1, 0>>, <<-1, -1>>, <<0, -1>>, <<1, -1>>}

RookDirs == {<<1, 0>>, <<0, 1>>, <<-1, 0>>, <<0, -1>>}

BishopDirs == {<<1, 1>>, <<-1, 1>>, <<-1, -1>>, <<1, -1>>}

\* Rank direction in which a pawn of the colour advances.
Forward(color) == IF color = "White" THEN 1 ELSE -1

\* The piece of colour `color` standing at (rank, file) is `piece`.
IsAt(board, rank, file, piece, color) ==
    /\ OnBoard(rank, file)
    /\ board.piece_on[make_square(rank, file)] = piece
    /\ board.color_on[make_square(rank, file)] = color

\* The squares strictly between (rank, file) and the square d steps away in
\* direction dir are all empty.
ClearPath(board, rank, file, dir, d) ==
    \A k \in 1 .. (d - 1) :
        board.piece_on[make_square(rank + k * dir[1], file + k * dir[2])] = "None"

\* A slider of colour `color`, of one of the kinds, looks at (rank, file)
\* along one of the directions.
SliderAttack(board, rank, file, color, dirs, kinds) ==
    \E dir \in dirs : \E d \in 1 .. 7 :
        /\ OnBoard(rank + d * dir[1], file + d * dir[2])
        /\ board.color_on[make_square(rank + d * dir[1], file + d * dir[2])] = color
        /\ board.piece_on[make_square(rank + d * dir[1], file + d * dir[2])] \in kinds
        /\ ClearPath(board, rank, file, dir, d)

\* Square sq is attacked by some piece of colour `color`.
Attacked(board, sq, color) ==
    LET r == get_rank(sq)
        f == get_file(sq)
    IN  \/ \E st \in KnightSteps : IsAt(board, r + st[1], f + st[2], "Knight", color)
        \/ \E st \in KingSteps : IsAt(board, r + st[1], f + st[2], "King", color)
        \/ \E df \in {-1, 1} : IsAt(board, r - Forward(color), f + df, "Pawn", color)
        \/ SliderAttack(board, r, f, color, RookDirs, {"Rook", "Queen"})
        \/ SliderAttack(board, r, f, color, BishopDirs, {"Bishop", "Queen"})

\* Board::checkers() is not empty: the side to move is in check.
InCheck(board) ==
    Attacked(board, KingSquare(board, board.side_to_move), Not(board.side_to_move))

ChessMove_new(source, dest, promotion) ==
    [source |-> source, dest |-> dest, promotion |-> promotion]

PromotionPieces == {"Queen", "Rook", "Bishop", "Knight"}

\* The corner a castling right is tied to: the right goes when a piece
\* leaves or is captured on the square.
RightsOfSquare(sq) ==
    CASE sq = 0  -> {"WQ"}
      [] sq = 7  -> {"WK"}
      [] sq = 4  -> {"WK", "WQ"}
      [] sq = 56 -> {"BQ"}
      [] sq = 63 -> {"BK"}
      [] sq = 60 -> {"BK", "BQ"}
      [] OTHER   -> {}

\* Board::make_move_new: the position after move mv, played by the side to
\* move.
make_move_new(board, mv) ==
    LET us     == board.side_to_move
        moved  == board.piece_on[mv.source]
        sr     == get_rank(mv.source)
        sf     == get_file(mv.source)
        dr     == get_rank(mv.dest)
        df     == get_file(mv.dest)
        castles == moved = "King" /\ sr = dr /\ (df - sf = 2 \/ sf - df = 2)
        double == moved = "Pawn" /\ (dr - sr = 2 \/ sr - dr = 2)
        behind == make_square(sr, df)
        takes_ep == /\ moved = "Pawn"
                    /\ ~double
                    /\ mv.promotion = "None"
                    /\ behind \in board.en_passant
                    /\ sf # df
        rook_from == make_square(sr, IF df > sf THEN 7 ELSE 0)
        rook_to   == make_square(sr, IF df > sf THEN 5 ELSE 3)
        landed == IF mv.promotion # "None" /\ moved = "Pawn" THEN mv.promotion ELSE moved
        pieces0 == [board.piece_on EXCEPT ![mv.source] = "None", ![mv.dest] = landed]
        colors0 == [board.color_on EXCEPT ![mv.source] = "None", ![mv.dest] = us]
        pieces == IF takes_ep THEN [pieces0 EXCEPT ![behind] = "None"]
                  ELSE IF castles
                       THEN [pieces0 EXCEPT ![rook_from] = "None", ![rook_to] = "Rook"]
                  ELSE pieces0
        colors == IF takes_ep THEN [colors0 EXCEPT ![behind] = "None"]
                  ELSE IF castles
                       THEN [colors0 EXCEPT ![rook_from] = "None", ![rook_to] = us]
                  ELSE colors0
        beside == \E d \in {-1, 1} :
                     /\ OnBoard(dr, df + d)
                     /\ pieces[make_square(dr, df + d)] = "Pawn"
                     /\ colors[make_square(dr, df + d)] = Not(us)
    IN  [ piece_on      |-> pieces,
          color_on      |-> colors,
          side_to_move  |-> Not(us),
          castle_rights |-> (board.castle_rights \ RightsOfSquare(mv.source))
                                \ RightsOfSquare(mv.dest),
          en_passant    |-> IF double /\ beside THEN {mv.dest} ELSE {} ]

\* The moves one piece could make, king safety aside.
PieceMoves(board, sq) ==
    LET us    == board.side_to_move
        them  == Not(us)
        piece == board.piece_on[sq]
        r     == get_rank(sq)
        f     == get_file(sq)
        fw    == Forward(us)
        last  == IF us = "White" THEN 7 ELSE 0
        home  == IF us = "White" THEN 1 ELSE 6
        Free(rr, ff) == OnBoard(rr, ff) /\ board.piece_on[make_square(rr, ff)] = "None"
        Enemy(rr, ff) == OnBoard(rr, ff) /\ board.color_on[make_square(rr, ff)] = them
        Step(steps) ==
            {ChessMove_new(sq, make_square(r + st[1], f + st[2]), "None") :
                st \in {s \in steps : Free(r + s[1], f + s[2]) \/ Enemy(r + s[1], f + s[2])}}
        Slide(dirs) ==
            {ChessMove_new(sq, make_square(r + x[2] * x[1][1], f + x[2] * x[1][2]), "None") :
                x \in {y \in dirs \X (1 .. 7) :
                         /\ Free(r + y[2] * y[1][1], f + y[2] * y[1][2])
                              \/ Enemy(r + y[2] * y[1][1], f + y[2] * y[1][2])
                         /\ ClearPath(board, r, f, y[1], y[2])}}
        PawnTo(dest) ==
            IF get_rank(dest) = last
            THEN {ChessMove_new(sq, dest, p) : p \in PromotionPieces}
            ELSE {ChessMove_new(sq, dest, "None")}
        Pushes ==
            (IF Free(r + fw, f) THEN PawnTo(make_square(r + fw, f)) ELSE {})
            \cup (IF r = home /\ Free(r + fw, f) /\ Free(r + 2 * fw, f)
                  THEN {ChessMove_new(sq, make_square(r + 2 * fw, f), "None")} ELSE {})
        Captures ==
            UNION {IF Enemy(r + fw, f + d) THEN PawnTo(make_square(r + fw, f + d)) ELSE {} :
                     d \in {-1, 1}}
        EnPassant ==
            {ChessMove_new(sq, make_square(r + fw, f + d), "None") :
                d \in {e \in {-1, 1} : OnBoard(r, f + e) /\ make_square(r, f + e) \in board.en_passant}}
        CastleTo(right, dir, empties) ==
            IF /\ right \in board.castle_rights
               /\ \A e \in empties : board.piece_on[make_square(r, e)] = "None"
               /\ \A k \in 0 .. 2 : ~Attacked(board, make_square(r, f + k * dir), them)
            THEN {ChessMove_new(sq, make_square(r, f + 2 * dir), "None")} ELSE {}
        Castles ==
            IF us = "White"
            THEN CastleTo("WK", 1, {5, 6}) \cup CastleTo("WQ", -1, {1, 2, 3})
            ELSE CastleTo("BK", 1, {5, 6}) \cup CastleTo("BQ", -1, {1, 2, 3})
    IN  CASE piece = "Knight" -> Step(KnightSteps)
          [] piece = "King"   -> Step(KingSteps) \cup Castles
          [] piece = "Rook"   -> Slide(RookDirs)
          [] piece = "Bishop" -> Slide(BishopDirs)
          [] piece = "Queen"  -> Slide(RookDirs \cup BishopDirs)
          [] piece = "Pawn"   -> Pushes \cup Captures \cup EnPassant
          [] OTHER            -> {}

\* After mv the mover's own king is not attacked.
KingSafeAfter(board, mv) ==
    LET after == make_move_new(board, mv)
    IN  ~Attacked(after, KingSquare(after, board.side_to_move), after.side_to_move)

\* MoveGen::new_legal(&board): the set of legal moves of the position.
MoveGen_new_legal(board) ==
    {mv \in UNION {PieceMoves(board, sq) :
                     sq \in {s \in ALL_SQUARES : board.color_on[s] = board.side_to_move}} :
        KingSafeAfter(board, mv)}

\* Board::legal(mv): mv is one of the legal moves of the position.
Board_legal(board, mv) ==
    /\ board.color_on[mv.source] = board.side_to_move
    /\ mv \in PieceMoves(board, mv.source)
    /\ KingSafeAfter(board, mv)

PromotionChar(p) ==
    CASE p = "Queen" -> "q" [] p = "Rook" -> "r" [] p = "Bishop" -> "b" [] p = "Knight" -> "n"

\* ChessMove's Display: source square, destination square, promotion letter.
ChessMove_to_string(mv) ==
    Square_to_string(mv.source) \o Square_to_string(mv.dest)
        \o (IF mv.promotion = "None" THEN <<>> ELSE <<PromotionChar(mv.promotion)>>)

\* Board::status(): decided by the number of legal moves and by check alone.
Board_status(board) ==
    IF Cardinality(MoveGen_new_legal(board)) = 0
    THEN (IF InCheck(board) THEN "Checkmate" ELSE "Stalemate")
    ELSE "Ongoing"

\* Board::is_sane, as far as placement goes: one king each, and the side
\* that has just moved is not in check.
Board_is_sane(board) ==
    /\ \A c \in {"White", "Black"} : Cardinality(SquaresOf(board, "King", c)) = 1
    /\ ~Attacked(board, KingSquare(board, Not(board.side_to_move)), board.side_to_move)

\* A FEN text, by its fields: the placement as <<square, piece, color>>
\* triples, the side to move, the castling rights and the en-passant target
\* square ({} for "-").
Fen(placement, side, castle, ep) ==
    [placement |-> placement, side |-> side, castle |-> castle, ep |-> ep]

\* fen.parse::<Board>(): the position the text describes, {} when the text
\* describes no sane position.  The en-passant square is kept as the square
\* of the pawn that advanced, and only when a pawn of the side to move
\* stands beside it.
Board_from_str(fen) ==
    LET pawn_sq(t) == IF fen.side = "White" THEN t - 8 ELSE t + 8
        placed == MakeBoard(fen.placement, fen.side, fen.castle, {})
        beside(sq) == \E d \in {-1, 1} :
                         IsAt(placed, get_rank(sq), get_file(sq) + d, "Pawn", fen.side)
        board == [placed EXCEPT !.en_passant =
                     {pawn_sq(t) : t \in {u \in fen.ep : beside(pawn_sq(u))}}]
    IN  IF /\ \A t1, t2 \in fen.placement : t1[1] = t2[1] => t1 = t2
           /\ Board_is_sane(board)
        THEN {board} ELSE {}

\* "7k/5Q2/8/8/8/8/8/7K b - - 0 1"
FenStalemate ==
    Fen({<<Sq("h", "8"), "King", "Black">>, <<Sq("f", "7"), "Queen", "White">>,
         <<Sq("h", "1"), "King", "White">>}, "Black", {}, {})

\* "8/8/8/8/8/6K1/8/2k5 w - - 0 1"
FenKingsOnly ==
    Fen({<<Sq("g", "3"), "King", "White">>, <<Sq("c", "1"), "King", "Black">>},
        "White", {}, {})

\* "8/6P1/8/8/8/8/8/4K2k w - - 0 1"
FenPromotion ==
    Fen({<<Sq("g", "7"), "Pawn", "White">>, <<Sq("e", "1"), "King", "White">>,
         <<Sq("h", "1"), "King", "Black">>}, "White", {}, {})

\* "r3k2r/8/8/8/8/8/8/R3K2R w KQkq - 0 1"
FenCastling ==
    Fen({<<Sq("a", "8"), "Rook", "Black">>, <<Sq("e", "8"), "King", "Black">>,
         <<Sq("h", "8"), "Rook", "Black">>, <<Sq("a", "1"), "Rook", "White">>,
         <<Sq("e", "1"), "King", "White">>, <<Sq("h", "1"), "Rook", "White">>},
        "White", {"WK", "WQ", "BK", "BQ"}, {})

\* "7k/8/6K1/8/8/8/8/R7 w - - 0 1"
FenRookMate ==
    Fen({<<Sq("h", "8"), "King", "Black">>, <<Sq("g", "6"), "King", "White">>,
         <<Sq("a", "1"), "Rook", "White">>}, "White", {}, {})

\* "4k3/8/8/3pP3/8/8/8/4K3 w - d6 0 1": White may capture en passant.
FenEnPassant ==
    Fen({<<Sq("e", "1"), "King", "White">>, <<Sq("e", "8"), "King", "Black">>,
         <<Sq("e", "5"), "Pawn", "White">>, <<Sq("d", "5"), "Pawn", "Black">>},
        "White", {}, {Sq("d", "6")})

(***************************************************************************)
(* struct Game { board, positions }: positions is the repetition table, a  *)
(* map from position hash to the number of times the line has visited it.  *)
(***************************************************************************)

\* Board::get_hash(): a fingerprint of everything the board holds (placement,
\* side to move, castling rights, en-passant square) and of nothing else.
Board_get_hash(board) ==
    <<board.piece_on, board.color_on, board.side_to_move, board.castle_rights,
      board.en_passant>>

\* get_hash mixing the repetition table into the key.
get_hash_with_positions(self) == <<Board_get_hash(self.board), self.positions>>

get_hash(self) == Board_get_hash(self.board)

\* As increment_position_count, but a known key keeps its count.
increment_position_count_insert_only(self) ==
    LET key == Board_get_hash(self.board)
    IN  [self EXCEPT !.positions =
            IF key \in DOMAIN self.positions
            THEN self.positions
            ELSE self.positions @@ (key :> 1)]

\* As increment_position_count, but keeping the present position's count
\* only.
increment_position_count_present_only(self) ==
    LET key == Board_get_hash(self.board)
    IN  [self EXCEPT !.positions =
            IF key \in DOMAIN self.positions
            THEN (key :> self.positions[key] + 1)
            ELSE (key :> 1)]

\* *self.positions.entry(key).or_insert(0) += 1
increment_position_count(self) ==
    LET key == Board_get_hash(self.board)
    IN  [self EXCEPT !.positions =
            IF key \in DOMAIN self.positions
            THEN [self.positions EXCEPT ![key] = @ + 1]
            ELSE self.positions @@ (key :> 1)]

new == increment_position_count([board |-> Board_default, positions |-> <<>>])

\* Result<_, String>: ok with one value, or an error with its message.
Ok(v) == [ok |-> TRUE, value |-> {v}, err |-> <<>>]

Err(kind, text) == [ok |-> FALSE, value |-> {}, err |-> <<kind, text>>]

Unwrap(result) == CHOOSE v \in result.value : TRUE

from_fen(fen) ==
    IF Board_from_str(fen) # {}
    THEN Ok(increment_position_count(
                [board |-> CHOOSE b \in Board_from_str(fen) : TRUE, positions |-> <<>>]))
    ELSE Err("Invalid FEN", <<>>)

\* As is_threefold_repetition, but counting from the fourth visit.
is_threefold_repetition_after_third(self) ==
    \E key \in DOMAIN self.positions : self.positions[key] > 3

is_threefold_repetition(self) ==
    \E key \in DOMAIN self.positions : self.positions[key] >= 3

\* As has_insufficient_material, without the two-knight case.
has_insufficient_material_no_knight_pair(board) ==
    LET occupied     == {sq \in ALL_SQUARES : board.piece_on[sq] # "None"}
        all_pieces   == Cardinality(occupied)
        num_knights  == Cardinality({sq \in occupied : board.piece_on[sq] = "Knight"})
        num_bishops  == Cardinality({sq \in occupied : board.piece_on[sq] = "Bishop"})
        bishop_squares == {sq \in occupied : board.piece_on[sq] = "Bishop"}
        color(sq)    == ((get_rank(sq) + get_file(sq)) % 2) = 0
        first        == CHOOSE sq \in bishop_squares : \A o \in bishop_squares : sq <= o
    IN  IF \E sq \in occupied : board.piece_on[sq] \in {"Pawn", "Rook", "Queen"}
        THEN FALSE
        ELSE IF all_pieces = 2 THEN TRUE
        ELSE IF num_knights = 1 /\ num_bishops = 0 /\ all_pieces = 3 THEN TRUE
        ELSE IF num_bishops = 1 /\ num_knights = 0 /\ all_pieces = 3 THEN TRUE
        ELSE IF /\ num_bishops = 2 /\ num_knights = 0 /\ all_pieces = 4
                /\ \A sq \in bishop_squares : color(sq) = color(first)
             THEN TRUE
        ELSE FALSE

has_insufficient_material(board) ==
    LET occupied     == {sq \in ALL_SQUARES : board.piece_on[sq] # "None"}
        all_pieces   == Cardinality(occupied)
        num_knights  == Cardinality({sq \in occupied : board.piece_on[sq] = "Knight"})
        num_bishops  == Cardinality({sq \in occupied : board.piece_on[sq] = "Bishop"})
        bishop_squares == {sq \in occupied : board.piece_on[sq] = "Bishop"}
        color(sq)    == ((get_rank(sq) + get_file(sq)) % 2) = 0
        first        == CHOOSE sq \in bishop_squares : \A o \in bishop_squares : sq <= o
    IN  IF \E sq \in occupied : board.piece_on[sq] \in {"Pawn", "Rook", "Queen"}
        THEN FALSE
        ELSE IF all_pieces = 2 THEN TRUE
        ELSE IF num_knights = 1 /\ num_bishops = 0 /\ all_pieces = 3 THEN TRUE
        ELSE IF num_knights = 2 /\ num_bishops = 0 /\ all_pieces = 4 THEN TRUE
        ELSE IF num_bishops = 1 /\ num_knights = 0 /\ all_pieces = 3 THEN TRUE
        ELSE IF /\ num_bishops = 2 /\ num_knights = 0 /\ all_pieces = 4
                /\ \A sq \in bishop_squares : color(sq) = color(first)
             THEN TRUE
        ELSE FALSE

is_terminal(self) ==
    IF is_threefold_repetition(self) \/ has_insufficient_material(self.board)
    THEN TRUE
    ELSE IF Board_status(self.board) # "Ongoing" THEN TRUE
    ELSE IF Cardinality(MoveGen_new_legal(self.board)) = 0 THEN TRUE
    ELSE FALSE

\* As legal_moves, without the early return for a terminal state.
legal_moves_from_generator_only(self) ==
    {ChessMove_to_string(mv) : mv \in MoveGen_new_legal(self.board)}

\* As legal_moves, writing each move as its two squares only.
legal_moves_squares_only(self) ==
    IF is_terminal(self) THEN {}
    ELSE {Square_to_string(mv.source) \o Square_to_string(mv.dest) :
            mv \in MoveGen_new_legal(self.board)}

\* The move texts, as a set: the order of the generator is not modelled.
legal_moves(self) ==
    IF is_terminal(self) THEN {}
    ELSE {ChessMove_to_string(mv) : mv \in MoveGen_new_legal(self.board)}

\* As parse_move, but accepting any move the piece could make, king safety
\* aside.
parse_move_pseudo_legal(self, move_str) ==
    IF Len(move_str) < 4 THEN Err("Move string too short", move_str)
    ELSE LET from_str    == SubSeq(move_str, 1, 2)
             to_str      == SubSeq(move_str, 3, 4)
             from_square == Square_from_str(from_str)
             to_square   == Square_from_str(to_str)
             fifth       == IF Len(move_str) > 4 THEN move_str[5] ELSE ""
             promotion_piece ==
                 CASE Len(move_str) <= 4 -> {"None"}
                   [] fifth = "q" -> {"Queen"}
                   [] fifth = "r" -> {"Rook"}
                   [] fifth = "b" -> {"Bishop"}
                   [] fifth = "n" -> {"Knight"}
                   [] OTHER -> {}
         IN  IF from_square = {} THEN Err("Invalid from-square", from_str)
             ELSE IF to_square = {} THEN Err("Invalid to-square", to_str)
             ELSE IF promotion_piece = {} THEN Err("Invalid promotion piece", <<fifth>>)
             ELSE LET mv == ChessMove_new(CHOOSE s \in from_square : TRUE,
                                          CHOOSE s \in to_square : TRUE,
                                          CHOOSE p \in promotion_piece : TRUE)
                  IN  IF /\ self.board.color_on[mv.source] = self.board.side_to_move
                         /\ mv \in PieceMoves(self.board, mv.source)
                      THEN Ok(mv)
                      ELSE Err("Illegal move", move_str)

\* A move text is a sequence of characters.
parse_move(self, move_str) ==
    IF Len(move_str) < 4 THEN Err("Move string too short", move_str)
    ELSE LET from_str    == SubSeq(move_str, 1, 2)
             to_str      == SubSeq(move_str, 3, 4)
             from_square == Square_from_str(from_str)
             to_square   == Square_from_str(to_str)
             fifth       == IF Len(move_str) > 4 THEN move_str[5] ELSE ""
             promotion_piece ==
                 CASE Len(move_str) <= 4 -> {"None"}
                   [] fifth = "q" -> {"Queen"}
                   [] fifth = "r" -> {"Rook"}
                   [] fifth = "b" -> {"Bishop"}
                   [] fifth = "n" -> {"Knight"}
                   [] OTHER -> {}
         IN  IF from_square = {} THEN Err("Invalid from-square", from_str)
             ELSE IF to_square = {} THEN Err("Invalid to-square", to_str)
             ELSE IF promotion_piece = {} THEN Err("Invalid promotion piece", <<fifth>>)
             ELSE LET mv == ChessMove_new(CHOOSE s \in from_square : TRUE,
                                          CHOOSE s \in to_square : TRUE,
                                          CHOOSE p \in promotion_piece : TRUE)
                  IN  IF Board_legal(self.board, mv) THEN Ok(mv)
                      ELSE Err("Illegal move", move_str)

\* As make_move, but counting the position before the text is parsed.
make_move_counts_first(self, move_str) ==
    LET parsed_move == parse_move(self, move_str)
    IN  IF ~parsed_move.ok
        THEN [self |-> increment_position_count(self),
              result |-> Err(parsed_move.err[1], parsed_move.err[2])]
        ELSE LET new_board == make_move_new(self.board, Unwrap(parsed_move))
                 moved     == increment_position_count([self EXCEPT !.board = new_board])
             IN  [self |-> moved,
                  result |-> Ok([board |-> moved.board, positions |-> moved.positions])]

\* As make_move, but building the successor beside the receiver, which it
\* leaves as it was.
make_move_by_value(self, move_str) ==
    LET parsed_move == parse_move(self, move_str)
    IN  IF ~parsed_move.ok
        THEN [self |-> self, result |-> Err(parsed_move.err[1], parsed_move.err[2])]
        ELSE LET new_board == make_move_new(self.board, Unwrap(parsed_move))
                 moved     == increment_position_count([self EXCEPT !.board = new_board])
             IN  [self |-> self,
                  result |-> Ok([board |-> moved.board, positions |-> moved.positions])]

\* make_move(&mut self, move_str): `self` is the receiver after the call,
\* `result` what the call returns.
make_move(self, move_str) ==
    LET parsed_move == parse_move(self, move_str)
    IN  IF ~parsed_move.ok
        THEN [self |-> self, result |-> Err(parsed_move.err[1], parsed_move.err[2])]
        ELSE LET new_board == make_move_new(self.board, Unwrap(parsed_move))
                 moved     == increment_position_count([self EXCEPT !.board = new_board])
             IN  [self |-> moved,
                  result |-> Ok([board |-> moved.board, positions |-> moved.positions])]

\* current_player with the two names exchanged.
current_player_exchanged(self) ==
    IF self.board.side_to_move = "White" THEN "Black" ELSE "White"

current_player(self) ==
    IF side_to_move(self.board) = "White" THEN "White" ELSE "Black"

\* As get_game_result, but crediting a checkmate to the side to move.
get_game_result_side_to_move_wins(self) ==
    IF ~is_terminal(self) THEN "None"
    ELSE IF is_threefold_repetition(self) THEN "Draw"
    ELSE IF has_insufficient_material(self.board) THEN "Draw"
    ELSE IF Cardinality(MoveGen_new_legal(self.board)) = 0
         THEN (IF InCheck(self.board)
               THEN (IF side_to_move(self.board) = "White" THEN "WhiteWin" ELSE "BlackWin")
               ELSE "Draw")
    ELSE "Draw"

\* Option<GameResult>: "None" while the game goes on.
get_game_result(self) ==
    IF ~is_terminal(self) THEN "None"
    ELSE IF is_threefold_repetition(self) THEN "Draw"
    ELSE IF has_insufficient_material(self.board) THEN "Draw"
    ELSE IF Cardinality(MoveGen_new_legal(self.board)) = 0
         THEN (IF InCheck(self.board)
               THEN (IF side_to_move(self.board) = "White" THEN "BlackWin" ELSE "WhiteWin")
               ELSE "Draw")
    ELSE "Draw"

\* The factor of interpret_evaluation_for_player (value * 10000.0).
Scale == 10000

\* A floating-point value is written as a whole number of steps, Grain steps
\* to each 1/10000: ValueOne steps are 1.0.
Grain == 2

ValueOne == Scale * Grain

result_value(self) ==
    CASE get_game_result(self) = "WhiteWin" -> ValueOne
      [] get_game_result(self) = "BlackWin" -> -ValueOne
      [] get_game_result(self) = "Draw" -> 0
      [] OTHER -> 0

\* encode_piece with the knight's slot before the bishop's.
encode_piece_knight_second(self, sq) ==
    LET piece == self.board.piece_on[sq]
        v     == IF self.board.color_on[sq] = "White" THEN 1 ELSE -1
    IN  CASE piece = "Pawn"   -> <<v, 0, 0, 0, 0, 0>>
          [] piece = "Knight" -> <<0, v, 0, 0, 0, 0>>
          [] piece = "Bishop" -> <<0, 0, v, 0, 0, 0>>
          [] piece = "Rook"   -> <<0, 0, 0, v, 0, 0>>
          [] piece = "Queen"  -> <<0, 0, 0, 0, v, 0>>
          [] piece = "King"   -> <<0, 0, 0, 0, 0, v>>
          [] OTHER            -> <<0, 0, 0, 0, 0, 0>>

\* encode_piece: the six numbers of one square.
encode_piece(self, sq) ==
    LET piece == self.board.piece_on[sq]
        v     == IF self.board.color_on[sq] = "White" THEN 1 ELSE -1
    IN  CASE piece = "Pawn"   -> <<v, 0, 0, 0, 0, 0>>
          [] piece = "Bishop" -> <<0, v, 0, 0, 0, 0>>
          [] piece = "Knight" -> <<0, 0, v, 0, 0, 0>>
          [] piece = "Rook"   -> <<0, 0, 0, v, 0, 0>>
          [] piece = "Queen"  -> <<0, 0, 0, 0, v, 0>>
          [] piece = "King"   -> <<0, 0, 0, 0, 0, v>>
          [] OTHER            -> <<0, 0, 0, 0, 0, 0>>

RECURSIVE encode_from(_, _)
\* The numbers encode() appends from square index i on: rows 0 to 7, and in
\* each row columns 0 to 7.
encode_from(self, i) ==
    IF i > 63 THEN <<>>
    ELSE encode_piece(self, make_square(i \div 8, i % 8)) \o encode_from(self, i + 1)

encode(self) == encode_from(self, 0)

(***************************************************************************)
(* The search adapter and the evaluator (src/src/mcts.rs).                 *)
(***************************************************************************)
ChessMCTSState_new(g) == [game |-> g]

available_moves(state) == legal_moves(state.game)

\* TranspositionHash::hash: the Game's board hash.
TranspositionHash_hash(state) == get_hash(state.game)

\* ChessMCTSState::make_move: self.game.make_move(mov).expect(..), which
\* panics when the Game returns an error.
ChessMCTSState_make_move(state, mov) ==
    LET r == make_move(state.game, mov)
    IN  [state |-> [game |-> r.self], panicked |-> ~r.result.ok]

\* RealChessModel::evaluate sizing the policy by the move generator's moves
\* for the board.
RealChessModel_evaluate_generator_moves(g, score) ==
    LET len == Cardinality(MoveGen_new_legal(g.board))
    IN  [value |-> score, policy |-> [i \in 1 .. len |-> <<1, len>>]]

\* RealChessModel::evaluate: `score` is what the network answers for the
\* encoded position; the policy is uniform, N entries of 1/N, each written
\* <<1, N>>.
RealChessModel_evaluate(g, score) ==
    LET len == Cardinality(legal_moves(g))
    IN  [value |-> score, policy |-> [i \in 1 .. len |-> <<1, len>>]]

\* evaluate_new_state: one unit of move data per move, and the model's
\* output for the state; scoring_calls counts the calls of the scoring model.
evaluate_new_state(state, moves, score) ==
    [move_evals    |-> Cardinality(moves),
     output        |-> RealChessModel_evaluate(state.game, score),
     scoring_calls |-> 1]

\* `as i64` of the number num / den (den > 0): the fraction is dropped, so
\* the result is the nearest whole number towards zero.
as_i64(num, den) ==
    IF num >= 0 THEN num \div den ELSE -((-num) \div den)

\* interpret_evaluation_for_player with floor() in place of the cast.
interpret_evaluation_for_player_floor(eval, player) ==
    LET value == IF player = "White" THEN eval.value ELSE -eval.value
    IN  (value * Scale) \div ValueOne

\* interpret_evaluation_for_player: (value * 10000.0) as i64, the value
\* negated first for every player but "White".
interpret_evaluation_for_player(eval, player) ==
    LET value == IF player = "White" THEN eval.value ELSE -eval.value
    IN  as_i64(value * Scale, ValueOne)

\* NodeStats, the data the search keeps in a node, as #[derive(Default)]
\* builds it.
NodeStats_default == [visits |-> 0, total_value |-> 0, mean_value |-> 0]

\* evaluate_existing_state: a copy of the evaluation stored in the node; the
\* node's NodeStats (reachable through the handle) are left as they are.
evaluate_existing_state(state, eval, stats) ==
    [output |-> eval, stats |-> stats]

(***************************************************************************)
(* The state machine: one Game, the operations called on it, and what the  *)
(* last call returned.                                                     *)
(***************************************************************************)
VARIABLES
    game,    \* the Game the operations are called on
    ret,     \* the operation last called and what it returned
    plies,   \* the number of successful make_move calls so far
    node,    \* the search node of the Game's state and its playout threads
    halfmove_clock  \* the half-moves played since the last pawn move or capture

vars == <<game, ret, plies, node, halfmove_clock>>

\* The playout threads of a search (playout_n_parallel(1000, 4)).
NThreads == 4

Threads == 1 .. NThreads

\* A node no playout has come to: default NodeStats, no stored evaluation.
Node_new ==
    [stats    |-> NodeStats_default,
     eval     |-> {},
     pc       |-> [t \in Threads |-> "ready"],
     returned |-> [t \in Threads |-> {}]]

\* Longest line of moves explored.
MaxPlies == 9

\* The values the scoring model may answer.
ModelValues == {-ValueOne, 0, ValueOne}

Fens ==
    {FenStalemate, FenKingsOnly, FenPromotion, FenCastling, FenRookMate, FenEnPassant}

\* The move texts callers pass to make_move.
MoveTexts ==
    { <<"f", "2", "f", "3">>, <<"e", "7", "e", "5">>, <<"g", "2", "g", "4">>,
      <<"d", "8", "h", "4">>,
      <<"a", "1", "b", "1">>, <<"h", "8", "g", "8">>, <<"b", "1", "a", "1">>,
      <<"g", "8", "h", "8">>, <<"a", "1", "a", "8">>,
      <<"g", "3", "g", "4">>,
      <<"g", "7", "g", "8", "q">>, <<"g", "7", "g", "8", "n">>, <<"g", "7", "g", "8">>,
      <<"g", "7", "g", "8", "k">>, <<"g", "7", "g", "8", "q", "x">>,
      <<"e", "1", "g", "1">>, <<"e", "5", "d", "6">>,
      <<"e", "2">>, <<"z", "9", "e", "4">>, <<"e", "2", "e", "9">> }

\* What a call of `op` with argument `arg` returned.
Called(op, arg, result) ==
    [op |-> op, arg |-> arg, ok |-> result.ok, value |-> result.value, err |-> result.err,
     output |-> {}, scoring_calls |-> 0]

Init ==
    /\ \/ game = new /\ ret = Called("new", <<>>, Ok(new))
       \/ \E fen \in Fens :
            /\ game = Unwrap(from_fen(fen))
            /\ ret = Called("from_fen", <<>>, from_fen(fen))
    /\ plies = 0
    /\ node = Node_new
    /\ halfmove_clock = 0

\* The move between two boards was a capture or a pawn move: a piece has
\* left the board or the pawns stand differently.
PawnMoveOrCapture(before, after) ==
    \/ Cardinality({sq \in ALL_SQUARES : before.piece_on[sq] # "None"})
         # Cardinality({sq \in ALL_SQUARES : after.piece_on[sq] # "None"})
    \/ \E sq \in ALL_SQUARES :
         (before.piece_on[sq] = "Pawn") # (after.piece_on[sq] = "Pawn")

\* make_move(move_str) is called on a line of fewer than `limit` moves.
MakeMoveWithin(limit, move_str) ==
    /\ plies < limit
    /\ LET r == make_move(game, move_str)
       IN  /\ game' = r.self
           /\ ret' = Called("make_move", move_str, r.result)
    /\ plies' = IF ret'.ok THEN plies + 1 ELSE plies
    /\ halfmove_clock' =
          IF ~ret'.ok THEN halfmove_clock
          ELSE IF PawnMoveOrCapture(game.board, game'.board) THEN 0
          ELSE halfmove_clock + 1
    /\ UNCHANGED node

MakeMove(move_str) == MakeMoveWithin(MaxPlies, move_str)

EvaluateNewState ==
    \E score \in ModelValues :
        LET state == ChessMCTSState_new(game)
            e     == evaluate_new_state(state, available_moves(state), score)
        IN  /\ ret' = [op |-> "evaluate_new_state", arg |-> <<>>, ok |-> TRUE, value |-> {},
                       err |-> <<>>, output |-> {e.output},
                       scoring_calls |-> e.scoring_calls]
            /\ UNCHANGED <<game, plies, node, halfmove_clock>>

\* The search plays mov, one of the state's available moves.
SearchMakeMove(mov) ==
    /\ plies < MaxPlies
    /\ LET r == ChessMCTSState_make_move(ChessMCTSState_new(game), mov)
       IN  /\ game' = r.state.game
           /\ ret' = [op |-> "ChessMCTSState::make_move", arg |-> mov,
                      ok |-> ~r.panicked, value |-> {}, err |-> <<>>,
                      output |-> {}, scoring_calls |-> 0]
    /\ plies' = IF ret'.ok THEN plies + 1 ELSE plies
    /\ halfmove_clock' =
          IF ~ret'.ok THEN halfmove_clock
          ELSE IF PawnMoveOrCapture(game.board, game'.board) THEN 0
          ELSE halfmove_clock + 1
    /\ UNCHANGED node

Encode ==
    /\ ret' = [op |-> "encode", arg |-> <<>>, ok |-> TRUE, value |-> {encode(game)},
               err |-> <<>>, output |-> {}, scoring_calls |-> 0]
    /\ UNCHANGED <<game, plies, node, halfmove_clock>>

Next ==
    \/ \E move_str \in MoveTexts : MakeMove(move_str)
    \/ EvaluateNewState
    \/ Encode
    \/ \E mov \in MoveTexts \cap available_moves(ChessMCTSState_new(game)) :
          SearchMakeMove(mov)

Spec == Init /\ [][Next]_vars

(***************************************************************************)
(* The material rule on its own: Games built by from_fen from positions of *)
(* two kings and a few further pieces.                                     *)
(***************************************************************************)

\* Most pieces besides the two kings.
MaxExtra == 3

\* c3, c4, f5, f6: two squares of each colour complex.
ExtraSquares == {Sq("c", "3"), Sq("c", "4"), Sq("f", "5"), Sq("f", "6")}

NoPiece == <<"None", "None">>

ExtraPieces ==
    {"Pawn", "Knight", "Bishop", "Rook", "Queen"} \X {"White", "Black"}

MaterialFens ==
    { Fen({<<Sq("e", "1"), "King", "White">>, <<Sq("e", "8"), "King", "Black">>}
              \cup {<<sq, a[sq][1], a[sq][2]>> : sq \in {x \in ExtraSquares : a[x] # NoPiece}},
          "White", {}, {}) :
        a \in {x \in [ExtraSquares -> ExtraPieces \cup {NoPiece}] :
                 Cardinality({sq \in ExtraSquares : x[sq] # NoPiece}) <= MaxExtra} }

MaterialTexts == { <<"e", "1", "d", "1">>, <<"e", "1">> }

InitMaterial ==
    /\ \E fen \in MaterialFens :
            /\ from_fen(fen).ok
            /\ game = Unwrap(from_fen(fen))
            /\ ret = Called("from_fen", <<>>, from_fen(fen))
    /\ plies = 0
    /\ node = Node_new
    /\ halfmove_clock = 0

NextMaterial == \E move_str \in MaterialTexts : MakeMove(move_str)

SpecMaterial == InitMaterial /\ [][NextMaterial]_vars

(***************************************************************************)
(* Parallel playouts: the node of a state has been created (its evaluation *)
(* is stored), and each playout thread comes to it once more through       *)
(* evaluate_existing_state.                                                *)
(***************************************************************************)
InitFold ==
    /\ \/ game = new
       \/ \E fen \in Fens : game = Unwrap(from_fen(fen))
    /\ plies = 0
    /\ halfmove_clock = 0
    /\ \E score \in ModelValues :
          LET state == ChessMCTSState_new(game)
              e     == evaluate_new_state(state, available_moves(state), score)
          IN  /\ ret = [op |-> "evaluate_new_state", arg |-> <<>>, ok |-> TRUE,
                        value |-> {}, err |-> <<>>, output |-> {e.output},
                        scoring_calls |-> e.scoring_calls]
              /\ node = [Node_new EXCEPT !.eval = {e.output}]

\* Thread t's playout revisits the node.
Playout(t) ==
    /\ node.pc[t] = "ready"
    /\ \E eval \in node.eval :
          LET r == evaluate_existing_state(ChessMCTSState_new(game), eval, node.stats)
          IN  node' = [node EXCEPT !.stats = r.stats,
                                   !.pc[t] = "done",
                                   !.returned[t] = {r.output}]
    /\ UNCHANGED <<game, ret, plies, halfmove_clock>>

NextFold == \E t \in Threads : Playout(t)

SpecFold == InitFold /\ [][NextFold]_vars

(***************************************************************************)
(* Scoring on its own: an evaluation whose value is any of ScoreValues is  *)
(* interpreted for either player.                                          *)
(***************************************************************************)

\* The values next to 0.0 reach this many steps either way.
MaxScoreSteps == 25

ScoreValues ==
    (-MaxScoreSteps .. MaxScoreSteps)
        \cup {-ValueOne, 1 - ValueOne, ValueOne - 1, ValueOne}

Players == {"White", "Black"}

InitScore ==
    /\ game = new
    /\ plies = 0
    /\ node = Node_new
    /\ halfmove_clock = 0
    /\ \E score \in ScoreValues :
          LET state == ChessMCTSState_new(game)
              e     == evaluate_new_state(state, available_moves(state), score)
          IN  ret = [op |-> "evaluate_new_state", arg |-> <<>>, ok |-> TRUE,
                     value |-> {}, err |-> <<>>, output |-> {e.output},
                     scoring_calls |-> e.scoring_calls]

InterpretEvaluation(player) ==
    /\ \E eval \in ret.output :
          ret' = [op |-> "interpret_evaluation_for_player", arg |-> <<player>>,
                  ok |-> TRUE,
                  value |-> {interpret_evaluation_for_player(eval, player)},
                  err |-> <<>>, output |-> ret.output, scoring_calls |-> 0]
    /\ UNCHANGED <<game, plies, node, halfmove_clock>>

NextScore == \E player \in Players : InterpretEvaluation(player)

SpecScore == InitScore /\ [][NextScore]_vars

(***************************************************************************)
(* A long line without pawn moves or captures: king and rook against king, *)
(* White's rook going round thirteen squares while Black's king goes       *)
(* between h8 and g8, so that no position comes a third time within a      *)
(* hundred half-moves.                                                     *)
(***************************************************************************)

\* The half-moves of test_fifty_move_rule ("After 50 full moves (100
\* half-moves), we should detect a draw").
FiftyMoveHalfMoves == 100

\* "7k/8/8/8/8/8/1R6/K7 w - - 0 1"
FenRookTour ==
    Fen({<<Sq("a", "1"), "King", "White">>, <<Sq("b", "2"), "Rook", "White">>,
         <<Sq("h", "8"), "King", "Black">>}, "White", {}, {})

TourSquares ==
    << <<"b", "2">>, <<"c", "2">>, <<"d", "2">>, <<"e", "2">>, <<"f", "2">>,
       <<"f", "3">>, <<"e", "3">>, <<"d", "3">>, <<"c", "3">>, <<"c", "4">>,
       <<"b", "4">>, <<"b", "5">>, <<"b", "3">> >>

TourTexts ==
    { TourSquares[i] \o TourSquares[(i % Len(TourSquares)) + 1] :
        i \in 1 .. Len(TourSquares) }
      \cup { <<"h", "8", "g", "8">>, <<"g", "8", "h", "8">>, <<"b", "2">> }

InitFifty ==
    /\ game = Unwrap(from_fen(FenRookTour))
    /\ ret = Called("from_fen", <<>>, from_fen(FenRookTour))
    /\ plies = 0
    /\ node = Node_new
    /\ halfmove_clock = 0

NextFifty == \E move_str \in TourTexts : MakeMoveWithin(FiftyMoveHalfMoves, move_str)

SpecFifty == InitFifty /\ [][NextFifty]_vars

(***************************************************************************)
(* Properties.                                                             *)
(***************************************************************************)

\* Some hash of the repetition table has been visited n times or more.
CountReaches(g, n) == \E key \in DOMAIN g.positions : g.positions[key] >= n

RECURSIVE SumCounts(_)
\* The sum of all counts of a repetition table.
SumCounts(positions) ==
    IF DOMAIN positions = {} THEN 0
    ELSE LET key == CHOOSE k \in DOMAIN positions : TRUE
         IN  positions[key]
               + SumCounts([k \in DOMAIN positions \ {key} |-> positions[k]])

\* C1: in every reachable state, legal_moves() is empty exactly when
\* is_terminal() is true, which is exactly when get_game_result() is Some.
C1_NoMovesIffTerminal ==
    /\ (legal_moves(game) = {}) <=> is_terminal(game)
    /\ is_terminal(game) <=> (get_game_result(game) # "None")

\* A terminal state reached by a move, with no legal moves although the
\* generator still has moves for the board.
C1_Witness ==
    /\ plies > 0
    /\ is_terminal(game)
    /\ legal_moves(game) = {}
    /\ MoveGen_new_legal(game.board) # {}

\* C2: whenever some hash of the repetition table has count >= 3, the state
\* is terminal, its result is Draw and it has no legal moves, whatever the
\* material and whether or not the board is a checkmate.
C2_ThreefoldIsDraw ==
    CountReaches(game, 3) =>
        /\ is_terminal(game)
        /\ get_game_result(game) = "Draw"
        /\ legal_moves(game) = {}

\* A position has occurred three times and the board is a checkmate with
\* mating material on it.
C2_Witness ==
    /\ CountReaches(game, 3)
    /\ Board_status(game.board) = "Checkmate"
    /\ ~has_insufficient_material(game.board)

\* C3: without threefold repetition and with sufficient material, a position
\* with no generator-legal move is a win for the side not to move when the
\* side to move is in check and a draw when it is not; legal_moves() is
\* empty either way.
C3_NoMovesResult ==
    (/\ ~CountReaches(game, 3)
     /\ ~has_insufficient_material(game.board)
     /\ MoveGen_new_legal(game.board) = {})
    => /\ legal_moves(game) = {}
       /\ get_game_result(game) =
            IF InCheck(game.board)
            THEN (IF game.board.side_to_move = "Black" THEN "WhiteWin" ELSE "BlackWin")
            ELSE "Draw"

\* White, to move, has been mated by a move played on the board.
C3_Witness ==
    /\ plies > 0
    /\ ~CountReaches(game, 3)
    /\ ~has_insufficient_material(game.board)
    /\ MoveGen_new_legal(game.board) = {}
    /\ InCheck(game.board)
    /\ game.board.side_to_move = "White"
    /\ get_game_result(game) = "BlackWin"

\* The number of pieces of a kind and colour on the board.
Count(board, piece, color) == Cardinality(SquaresOf(board, piece, color))

\* A pawn, rook or queen of either colour is on the board.
HasPawnRookQueen(board) ==
    \E sq \in ALL_SQUARES : board.piece_on[sq] \in {"Pawn", "Rook", "Queen"}

\* <<white knights, white bishops, black knights, black bishops>>
Minors(board) ==
    <<Count(board, "Knight", "White"), Count(board, "Bishop", "White"),
      Count(board, "Knight", "Black"), Count(board, "Bishop", "Black")>>

\* All bishops stand on squares of the same (file + rank) parity.
BishopsOnOneComplex(board) ==
    \A s1, s2 \in ALL_SQUARES :
        (board.piece_on[s1] = "Bishop" /\ board.piece_on[s2] = "Bishop")
        => (get_file(s1) + get_rank(s1)) % 2 = (get_file(s2) + get_rank(s2)) % 2

\* The five listed cases: K v K, K+N v K, K+N v K+N, K+B v K, and K+B v K+B
\* with the bishops on one colour complex.
ListedInsufficient(board) ==
    /\ ~HasPawnRookQueen(board)
    /\ \/ Minors(board) \in {<<0, 0, 0, 0>>, <<1, 0, 0, 0>>, <<0, 0, 1, 0>>,
                             <<1, 0, 1, 0>>, <<0, 1, 0, 0>>, <<0, 0, 0, 1>>}
       \/ Minors(board) = <<0, 1, 0, 1>> /\ BishopsOnOneComplex(board)

\* C4: has_insufficient_material is false whenever a pawn, rook or queen is
\* on the board and true in each of the five listed cases; a state whose
\* board is in a listed case is terminal, a Draw, and has no legal moves.
C4_InsufficientMaterial ==
    /\ HasPawnRookQueen(game.board) => ~has_insufficient_material(game.board)
    /\ ListedInsufficient(game.board) =>
          /\ has_insufficient_material(game.board)
          /\ is_terminal(game)
          /\ get_game_result(game) = "Draw"
          /\ legal_moves(game) = {}

\* King and knight against king and knight, the generator reporting Ongoing.
C4_Witness ==
    /\ Minors(game.board) = <<1, 0, 1, 0>>
    /\ ~HasPawnRookQueen(game.board)
    /\ Board_status(game.board) = "Ongoing"
    /\ is_terminal(game)
    /\ legal_moves(game) = {}

\* C5: every king/bishop/knight-only combination other than the five listed
\* ones is classified as sufficient material.
C5_OtherCombinationsSufficient ==
    (~HasPawnRookQueen(game.board) /\ ~ListedInsufficient(game.board))
    => ~has_insufficient_material(game.board)

\* The first five characters of a move text (all of a shorter one).
FirstFive(move_str) == SubSeq(move_str, 1, IF Len(move_str) > 5 THEN 5 ELSE Len(move_str))

\* C6, as stated: make_move(m) succeeds only if m is an element of
\* legal_moves() of the state it is called on (so never on a terminal state).
C6_SucceedsOnlyIfInLegalMoves ==
    [][(ret'.op = "make_move" /\ ret'.ok) => ret'.arg \in legal_moves(game)]_vars

\* C6, amended: make_move(m) succeeds only if the move spelled by the first
\* five characters of m is a legal move of the board according to the move
\* generator, and it then plays that move; whether the Game is terminal by
\* repetition or material plays no part.
C6_SucceedsOnlyIfBoardLegal ==
    [][(ret'.op = "make_move" /\ ret'.ok) =>
         \E mv \in MoveGen_new_legal(game.board) :
            /\ ChessMove_to_string(mv) = FirstFive(ret'.arg)
            /\ game'.board = make_move_new(game.board, mv)]_vars

\* A move has succeeded on a Game that was already drawn by repetition: a
\* hash other than the new position's has count >= 3.
C6_Witness ==
    /\ ret.op = "make_move"
    /\ ret.ok
    /\ \E key \in DOMAIN game.positions :
          game.positions[key] >= 3 /\ key # get_hash(game)

\* C7: the counts of the repetition table sum to the number of positions
\* visited: one for the root and one more for each successful make_move;
\* failed calls leave the sum alone.
C7_SumOfCounts == SumCounts(game.positions) = plies + 1

\* A failed make_move on a line that has revisited a position.
C7_Witness ==
    /\ ret.op = "make_move"
    /\ ~ret.ok
    /\ plies >= 4
    /\ CountReaches(game, 2)

\* C8: a make_move that returns an error leaves the Game unchanged.
C8_FailedMoveLeavesGame ==
    [][(ret'.op = "make_move" /\ ~ret'.ok) => game' = game]_vars

\* A well-formed but illegal move has been rejected after some moves.
C8_Witness ==
    /\ ret.op = "make_move"
    /\ ~ret.ok
    /\ ret.err[1] = "Illegal move"
    /\ plies > 0

\* C9, as stated: a successful make_move does not mutate the state it is
\* called on.
C9_ReceiverUnchanged ==
    [][(ret'.op = "make_move" /\ ret'.ok) => game' = game]_vars

\* C9, amended: a successful make_move advances the Game it is called on, in
\* place, to the successor (the board after the move, the table with the new
\* position counted once more) and returns a copy of that successor.
C9_ReceiverAdvances ==
    [][(ret'.op = "make_move" /\ ret'.ok) =>
         /\ game' # game
         /\ ret'.value = {game'}
         /\ \E mv \in MoveGen_new_legal(game.board) :
               game' = increment_position_count(
                          [board |-> make_move_new(game.board, mv),
                           positions |-> game.positions])]_vars

\* A second move has succeeded and the Game is at the returned state.
C9_Witness ==
    /\ ret.op = "make_move"
    /\ ret.ok
    /\ plies >= 2
    /\ ret.value = {game}

\* C10: when evaluate_new_state is asked about a terminal state, the scoring
\* model is not called, the value is +1, -1 or 0 as the result is a White
\* win, a Black win or a draw, and the policy is empty.
C10_TerminalShortCircuit ==
    (ret.op = "evaluate_new_state" /\ is_terminal(game)) =>
        /\ ret.scoring_calls = 0
        /\ \A o \in ret.output : o.value = result_value(game) /\ o.policy = <<>>

\* C11: when each of the N playout threads has folded the node's value v
\* into the node's NodeStats through evaluate_existing_state, in whatever
\* order, the node has visits = N, total_value = N * v and mean_value = v.
C11_FoldsAccumulate ==
    (\A t \in Threads : node.pc[t] = "done") =>
        \A o \in node.eval :
            /\ node.stats.visits = NThreads
            /\ node.stats.total_value = NThreads * o.value
            /\ node.stats.mean_value = o.value

\* q is the value v (in steps) times 10000, truncated toward zero.
IsTruncatedScore(q, v) ==
    IF v >= 0
    THEN /\ q >= 0
         /\ q * ValueOne <= v * Scale
         /\ v * Scale < (q + 1) * ValueOne
    ELSE /\ q <= 0
         /\ q * ValueOne >= v * Scale
         /\ v * Scale > (q - 1) * ValueOne

\* C12: for every value, the score for "White" is the value times 10000
\* truncated toward zero, the score for "Black" is exactly the negation of
\* that number, and so score(output, "White") = -score(output, "Black").
C12_ScoreAntisymmetric ==
    (ret.op = "interpret_evaluation_for_player") =>
        \A eval \in ret.output : \A score \in ret.value :
            /\ ret.arg = <<"White">> => IsTruncatedScore(score, eval.value)
            /\ ret.arg = <<"Black">> => IsTruncatedScore(-score, eval.value)
            /\ interpret_evaluation_for_player(eval, "White")
                  = -interpret_evaluation_for_player(eval, "Black")

\* A value that is not a whole number of 1/10000 and counts against Black
\* has been scored for Black.
C12_Witness ==
    /\ ret.op = "interpret_evaluation_for_player"
    /\ ret.arg = <<"Black">>
    /\ \E eval \in ret.output :
          /\ eval.value > Grain
          /\ eval.value % Grain # 0
          /\ ret.value = {-(eval.value \div Grain)}

\* C13: for every state, terminal or not, the policy of the model's output
\* has as many entries as legal_moves() has moves, each entry is 1/N for
\* that number N (written <<1, N>>), and the policy of a terminal state is
\* empty.
C13_UniformPolicy ==
    (ret.op = "evaluate_new_state") =>
        \A o \in ret.output :
            /\ Len(o.policy) = Cardinality(legal_moves(game))
            /\ \A i \in 1 .. Len(o.policy) :
                  o.policy[i] = <<1, Cardinality(legal_moves(game))>>
            /\ is_terminal(game) => o.policy = <<>>

\* A state reached by moves and terminal although its board still has moves
\* has been evaluated.
C13_Witness ==
    /\ ret.op = "evaluate_new_state"
    /\ plies > 0
    /\ is_terminal(game)
    /\ MoveGen_new_legal(game.board) # {}
    /\ \A o \in ret.output : o.policy = <<>>

\* The order of the piece kinds within the six numbers of a square.
KindOrder == <<"Pawn", "Bishop", "Knight", "Rook", "Queen", "King">>

\* C14: encode() returns exactly 384 numbers; the square of rank r and file
\* c has positions (r*8+c)*6 .. (r*8+c)*6+5 (counted from 0), in the order
\* pawn, bishop, knight, rook, queen, king; an empty square has six zeros,
\* an occupied one +1 (White) or -1 (Black) in its kind's slot and zeros
\* elsewhere; and the result is that of any Game with the same board,
\* whatever its repetition table.
C14_Encoding ==
    (ret.op = "encode") =>
        \A enc \in ret.value :
            /\ Len(enc) = 384
            /\ \A r \in Coord, c \in Coord, k \in 0 .. 5 :
                  enc[(r * 8 + c) * 6 + k + 1] =
                      IF game.board.piece_on[make_square(r, c)] = KindOrder[k + 1]
                      THEN (IF game.board.color_on[make_square(r, c)] = "White"
                            THEN 1 ELSE -1)
                      ELSE 0
            /\ enc = encode(increment_position_count(
                                [board |-> game.board, positions |-> <<>>]))

\* The position after f2f3 e7e5 g2g4 d8h4 has been encoded: the black queen
\* on h4 (rank 3, file 7) is the -1 in the queen's slot of its square.
C14_Witness ==
    /\ ret.op = "encode"
    /\ plies = 4
    /\ game.board.piece_on[Sq("h", "4")] = "Queen"
    /\ \A enc \in ret.value : enc[(3 * 8 + 7) * 6 + 4 + 1] = -1

\* C15: make_move accepts only move text of exactly 4 or 5 characters: a
\* shorter or a longer text is rejected even when its first characters spell
\* a legal move, and so is a text whose fifth character is none of q, r, b,
\* n.
C15_OnlyFourOrFiveCharacters ==
    (ret.op = "make_move" /\ ret.ok) =>
        /\ Len(ret.arg) \in {4, 5}
        /\ Len(ret.arg) = 5 => ret.arg[5] \in {"q", "r", "b", "n"}

\* C16: a game in which 100 half-moves in a row were neither pawn moves nor
\* captures is terminal, a draw, and has no legal moves, whether or not a
\* position has occurred three times; the initial position is not terminal.
C16_FiftyMoveRule ==
    /\ halfmove_clock >= FiftyMoveHalfMoves =>
          /\ is_terminal(game)
          /\ get_game_result(game) = "Draw"
          /\ legal_moves(game) = {}
    /\ ~is_terminal(new)

\* The Game was built by Game::new(): the table has counted the starting
\* position (no position built from the FEN inputs leads to it).
StartedByNew == get_hash(new) \in DOMAIN game.positions

\* C17: current_player() is "White" after Game::new(); every successful
\* make_move changes it to the other player and a failed make_move leaves it
\* as it was; so after k successful moves from the start the player is
\* "White" exactly when k is even.
C17_PlayerAlternates ==
    /\ current_player(new) = "White"
    /\ [](StartedByNew => (current_player(game) = "White" <=> plies % 2 = 0))
    /\ [][(ret'.op = "make_move") =>
            IF ret'.ok
            THEN current_player(game') # current_player(game)
                 /\ {current_player(game), current_player(game')} = {"White", "Black"}
            ELSE current_player(game') = current_player(game)]_vars

\* After three moves from the start, with Black to move, a move text has
\* been rejected.
C17_Witness ==
    /\ StartedByNew
    /\ plies = 3
    /\ ret.op = "make_move"
    /\ ~ret.ok
    /\ current_player(game) = "Black"

\* C18: in every reachable state, make_move(m) succeeds for every move text
\* m that legal_moves() (available_moves()) returns, promotions, castling
\* and en-passant captures included; so ChessMCTSState::make_move does not
\* panic on a move taken from available_moves() of the same state.
C18_AvailableMovesAreAccepted ==
    /\ \A mov \in available_moves(ChessMCTSState_new(game)) :
          LET r == ChessMCTSState_make_move(ChessMCTSState_new(game), mov)
          IN  ~r.panicked /\ r.state.game # game
    /\ (ret.op = "ChessMCTSState::make_move") => ret.ok

\* The search has played the en-passant capture e5d6 from the state's
\* available moves: the captured pawn has left d5.
C18_Witness ==
    /\ ret.op = "ChessMCTSState::make_move"
    /\ ret.arg = <<"e", "5", "d", "6">>
    /\ ret.ok
    /\ game.board.piece_on[Sq("d", "5")] = "None"
    /\ game.board.piece_on[Sq("d", "6")] = "Pawn"

\* The state of a Game that has the same board as the present one and has
\* seen nothing before it: what from_fen builds for the present position.
SameBoardNoHistory ==
    ChessMCTSState_new(
        increment_position_count([board |-> game.board, positions |-> <<>>]))

\* C19: the transposition key depends on the board alone and never on the
\* repetition table: two states with the same board and different histories
\* have the same key, also when one of them is drawn by threefold repetition
\* (terminal, no available moves) and the other is ongoing with moves.
C19_KeyIgnoresHistory ==
    /\ TranspositionHash_hash(ChessMCTSState_new(game))
          = TranspositionHash_hash(SameBoardNoHistory)
    /\ TranspositionHash_hash(ChessMCTSState_new(game)) = Board_get_hash(game.board)

\* The present position has occurred three times, so the state is terminal
\* and has no available moves, while the state of the same board without
\* history is ongoing and has moves; both have the same key.
C19_Witness ==
    /\ is_threefold_repetition(game)
    /\ is_terminal(game)
    /\ available_moves(ChessMCTSState_new(game)) = {}
    /\ ~is_terminal(SameBoardNoHistory.game)
    /\ available_moves(SameBoardNoHistory) # {}
    /\ TranspositionHash_hash(ChessMCTSState_new(game))
          = TranspositionHash_hash(SameBoardNoHistory)

\* C20: no operation takes an entry out of the repetition table or lowers a
\* count; and once is_threefold_repetition() is true it stays true, the
\* state staying terminal with result Draw, after every further successful
\* make_move.
C20_TableOnlyGrows ==
    [][/\ \A key \in DOMAIN game.positions :
             /\ key \in DOMAIN game'.positions
             /\ game'.positions[key] >= game.positions[key]
       /\ is_threefold_repetition(game) =>
             /\ is_threefold_repetition(game')
             /\ is_terminal(game')
             /\ get_game_result(game') = "Draw"]_vars

\* A further move has succeeded after a threefold repetition: the count of
\* three belongs to an earlier position, and the state is still a Draw.
C20_Witness ==
    /\ ret.op = "make_move"
    /\ ret.ok
    /\ is_threefold_repetition(game)
    /\ game.positions[get_hash(game)] < 3
    /\ get_game_result(game) = "Draw"
====
